---- MODULE Spec2Model ----
(***************************************************************************)
(* Model of the SuDoKu solver and generator of src/sudoku/csudoku.c.       *)
(*                                                                         *)
(* Scale.  The program works on the order-3 grid (3x3 boxes, 9 digits, 81  *)
(* cells, 20 peers per cell, candidate mask 511).  Every definition below  *)
(* is written for a grid of order Box, and the model is checked on the     *)
(* order-2 instance (2x2 boxes, 4 digits, 16 cells, 7 peers, mask 15), on  *)
(* which the complete search and the complete generator can be explored.   *)
(* The literals of the source read, in terms of Box:                       *)
(*     9 = Side,  81 = NCells,  511 = FullMask,  20 = Len(relations[i]),   *)
(*     10 = Side + 1.                                                      *)
(* Widths are the program's own: c[] and q[] are unsigned char (mod 256).  *)
(***************************************************************************)
EXTENDS Integers, Sequences, FiniteSets, TLC

Box == 2
Side == Box * Box
NCells == Side * Side
Cells == 0 .. (NCells - 1)
Digits == 1 .. Side
FullMask == (2 ^ Side) - 1
UCharMod == 256

(***************************************************************************)
(* C arithmetic on masks.                                                  *)
(***************************************************************************)
\* (p >> (n - 1)) & 1, for 1 <= n
Bit(p, n) == (p \div (2 ^ (n - 1))) % 2

RECURSIVE ffs(_)
\* ffs(3): 1-based index of the least significant set bit, 0 for 0
ffs(x) == IF x = 0 THEN 0 ELSE IF x % 2 = 1 THEN 1 ELSE 1 + ffs(x \div 2)

RECURSIVE popcount(_)
popcount(x) == IF x = 0 THEN 0 ELSE (x % 2) + popcount(x \div 2)

\* j &= j - 1 : clears the least significant set bit (0 stays 0)
ClearLowest(j) == IF j = 0 THEN 0 ELSE j - (2 ^ (ffs(j) - 1))

(***************************************************************************)
(* Relation table: the peers of a cell, those sharing its row, column or   *)
(* box.  The table itself (SuDoKu__relations) lives in the header; it is   *)
(* modelled from its description, in ascending cell order.                 *)
(***************************************************************************)
RowOf(i) == i \div Side
ColOf(i) == i % Side
BoxOf(i) == (RowOf(i) \div Box) * Box + (ColOf(i) \div Box)

Peers(i) ==
    {j \in Cells : j # i /\ (RowOf(j) = RowOf(i) \/ ColOf(j) = ColOf(i) \/ BoxOf(j) = BoxOf(i))}

RECURSIVE SortedSeq(_)
SortedSeq(S) ==
    IF S = {} THEN <<>>
    ELSE LET m == CHOOSE x \in S : \A y \in S : x <= y
         IN <<m>> \o SortedSeq(S \ {m})

SuDoKu__relations == [i \in Cells |-> SortedSeq(Peers(i))]
NPeers == Len(SuDoKu__relations[0])

(***************************************************************************)
(* Decision-tree nodes (self->g): None, NULL, a leaf (n, '+') or (n, '-'), *)
(* or (n, list of children).                                               *)
(***************************************************************************)
GNull == [d |-> -1, k |-> "NULL", ch |-> <<>>]
GNone == [d |-> -1, k |-> "None", ch |-> <<>>]
GLeaf(d, k) == [d |-> d, k |-> k, ch |-> <<>>]
GList(d, ch) == [d |-> d, k |-> "list", ch |-> ch]

(***************************************************************************)
(* The SuDoKu struct: o (clues), v (values), p (candidate masks), c        *)
(* (candidate counts), q, q_i, q_o (forced queue), n (filled), e, g.       *)
(***************************************************************************)
RECURSIVE CopyArray(_, _)
CopyArray(f, k) == IF k = 0 THEN (0 :> f[0]) ELSE CopyArray(f, k - 1) @@ (k :> f[k])

\* the array of NCells entries f[0], f[1], ... written out entry by entry
ToArray(f) == CopyArray(f, NCells - 1)

\* an array of NCells entries, all equal to x
Array(x) == ToArray([i \in Cells |-> x])

\* the state tp_alloc and SuDoKu_new leave: zeroed memory, e = 1, g = NULL
NewGrid ==
    [o |-> Array(0), v |-> Array(0),
     p |-> Array(0), c |-> Array(0),
     q |-> Array(0), q_i |-> 0, q_o |-> 0, n |-> 0,
     e |-> 1, g |-> GNull]

SuDoKu__reset(self) ==
    [self EXCEPT !.v = Array(0),
                 !.p = Array(FullMask),
                 !.c = Array(Side),
                 !.q = Array((-1) % UCharMod),
                 !.q_i = 0,
                 !.q_o = 0,
                 !.n = 0,
                 !.g = IF self.e # 0 THEN GNone ELSE @]

\* copies self into t; t->g is replaced by None only when self->e
SuDoKu__copy(self, t) ==
    [self EXCEPT !.g = IF self.e # 0 THEN GNone ELSE t.g]

\* result of a call on a grid: the grid after the call and the return code
Ret(self, r) == [self |-> self, r |-> r]

\* the '-' leaf both mark and eliminate record before raising Contradiction
Contradict(self) ==
    Ret(IF self.e # 0 THEN [self EXCEPT !.g = GLeaf(self.n, "-")] ELSE self, -2)

\* eliminate clearing the bit without counting it
SuDoKu__eliminate_nocount(self, i, n) ==
    IF Bit(self.p[i], n) = 1
    THEN Ret([self EXCEPT !.p[i] = @ - (2 ^ (n - 1))], 0)
    ELSE Ret(self, 0)

\* eliminate queueing the cell when two candidates are left
SuDoKu__eliminate_two(self, i, n) ==
    IF Bit(self.p[i], n) = 1
    THEN LET s1 == [self EXCEPT !.p[i] = @ - (2 ^ (n - 1)),
                                !.c[i] = (@ - 1) % UCharMod]
         IN IF s1.c[i] = 0 THEN Contradict(s1)
            ELSE IF s1.c[i] = 2
                 THEN Ret([s1 EXCEPT !.q[s1.q_i] = i % UCharMod, !.q_i = @ + 1], 0)
                 ELSE Ret(s1, 0)
    ELSE Ret(self, 0)

SuDoKu__eliminate(self, i, n) ==
    IF Bit(self.p[i], n) = 1
    THEN LET s1 == [self EXCEPT !.p[i] = @ - (2 ^ (n - 1)),
                                !.c[i] = (@ - 1) % UCharMod]
         IN IF s1.c[i] = 0 THEN Contradict(s1)
            ELSE IF s1.c[i] = 1
                 THEN Ret([s1 EXCEPT !.q[s1.q_i] = i % UCharMod, !.q_i = @ + 1], 0)
                 ELSE Ret(s1, 0)
    ELSE Ret(self, 0)

RECURSIVE EliminateLoop(_, _, _, _)
\* the loop stopping one peer short (j < 19)
EliminateLoop_short(self, rel, j, n) ==
    IF j > Len(rel) - 1 THEN Ret(self, 0)
    ELSE LET el == SuDoKu__eliminate(self, rel[j], n)
         IN IF el.r < 0 THEN el ELSE EliminateLoop(el.self, rel, j + 1, n)

\* for (j = 0; j < 20; j++) { r = eliminate(self, rel[j], n); if (r < 0) return r; }
EliminateLoop(self, rel, j, n) ==
    IF j > Len(rel) THEN Ret(self, 0)
    ELSE LET el == SuDoKu__eliminate(self, rel[j], n)
         IN IF el.r < 0 THEN el ELSE EliminateLoop(el.self, rel, j + 1, n)

RECURSIVE SuDoKu__mark(_, _, _)
RECURSIVE DrainQueue(_)
\* while (self->q_o < self->q_i) { pop; n = ffs(p[i]); r = mark(self, i, n); ... }
DrainQueue(self) ==
    IF self.q_o < self.q_i
    THEN LET i == self.q[self.q_o]
             s1 == [self EXCEPT !.q_o = @ + 1]
             n == ffs(s1.p[i])
             mk == SuDoKu__mark(s1, i, n)
         IN IF mk.r < 0 THEN mk ELSE DrainQueue(mk.self)
    ELSE Ret(self, 0)

SuDoKu__mark(self, i, n) ==
    IF self.v[i] = n THEN Ret(self, 0)
    ELSE IF Bit(self.p[i], n) = 0 THEN Contradict(self)
    ELSE LET s1 == [self EXCEPT !.v[i] = n, !.n = @ + 1, !.p[i] = 0, !.c[i] = 0]
             el == EliminateLoop(s1, SuDoKu__relations[i], 1, n)
         IN IF el.r < 0 THEN el ELSE DrainQueue(el.self)

RECURSIVE SearchMinLoop(_, _, _, _)
\* the scan without the test v[i] == 0
SearchMinLoop_assigned(self, i, im, cm) ==
    IF i >= NCells THEN im
    ELSE IF self.c[i] < cm
         THEN SearchMinLoop(self, i + 1, i % UCharMod, self.c[i])
         ELSE SearchMinLoop(self, i + 1, im, cm)

\* for (i = 0; i < 81; i++) if (v[i] == 0 && c[i] < cm) { im = i; cm = c[i]; }
SearchMinLoop(self, i, im, cm) ==
    IF i >= NCells THEN im
    ELSE IF self.v[i] = 0 /\ self.c[i] < cm
         THEN SearchMinLoop(self, i + 1, i % UCharMod, self.c[i])
         ELSE SearchMinLoop(self, i + 1, im, cm)

\* im is an unsigned char initialised with -1, cm starts at 10
SuDoKu__search_min(self) == SearchMinLoop(self, 0, (-1) % UCharMod, Side + 1)

(***************************************************************************)
(* Memory of one search: the object itself and the workspace ws[81] that   *)
(* SuDoKu_resolve and SuDoKu__unique_sol keep on their stack.  A pointer   *)
(* is SelfPtr (the object) or a slot index k (&ws[k]); grids are always    *)
(* read through their pointer, as the code does.  err is the interpreter's *)
(* error indicator: "none", or the exception that is set.                  *)
(***************************************************************************)
SelfPtr == -1

\* a slot of the stack array before anything was written to it
UninitGrid ==
    [o |-> Array(-1), v |-> Array(-1),
     p |-> Array(-1), c |-> Array(-1),
     q |-> Array(-1), q_i |-> -1, q_o |-> -1, n |-> -1,
     e |-> -1, g |-> [d |-> -1, k |-> "garbage", ch |-> <<>>]]

Deref(mem, ptr) == IF ptr = SelfPtr THEN mem.self ELSE mem.ws[ptr]

Assign(mem, ptr, val) ==
    IF ptr = SelfPtr THEN [mem EXCEPT !.self = val] ELSE [mem EXCEPT !.ws[ptr] = val]

\* the grid t after r = SuDoKu__mark(t, ...): a return of -2 comes with
\* PyErr_SetNone(SuDoKu_Contradiction)
Marked(mem, t, mk) ==
    [Assign(mem, t, mk.self) EXCEPT !.err = IF mk.r = -2 THEN "Contradiction" ELSE @]

PyErr_Clear(mem) == [mem EXCEPT !.err = "none"]

\* one entry of the search log: a branch tried (copy into dst, then mark)
\* or a return of one level of the recursion
TryEvent(src, dst, i, n, r) ==
    [ev |-> "try", src |-> src, dst |-> dst, i |-> i, n |-> n, r |-> r, count |-> 0]
RetEvent(src, r, count) ==
    [ev |-> "ret", src |-> src, dst |-> src, i |-> 0, n |-> 0, r |-> r, count |-> count]

\* PyList_Append(sg, t->g); Py_CLEAR(t->g);  sg is the list held by self->g
AppendGraph(mem, sp, t) ==
    LET tg == Deref(mem, t).g
        sg == Deref(mem, sp).g
        m1 == Assign(mem, sp, [Deref(mem, sp) EXCEPT !.g = GList(sg.d, Append(sg.ch, tg))])
    IN Assign(m1, t, [Deref(m1, t) EXCEPT !.g = GNull])

\* the same block without PyErr_Clear()
ResolveSwallow_keep(mem, sp, t) ==
    IF Deref(mem, sp).e # 0 THEN AppendGraph(mem, sp, t) ELSE mem

\* if (r == -2) { PyErr_Clear(); if (self->e) { append t->g to sg } continue; }
ResolveSwallow(mem, sp, t) ==
    LET m1 == PyErr_Clear(mem)
    IN IF Deref(m1, sp).e # 0 THEN AppendGraph(m1, sp, t) ELSE m1

RECURSIVE SuDoKu__resolve_aux(_, _, _)
RECURSIVE ResolveLoop(_, _, _, _, _, _, _)
\* for (n = 1; n < 10; n++) of SuDoKu__resolve_aux
ResolveLoop(mem, sp, t, i, n, res, log) ==
    IF n >= Side + 1
    THEN [r |-> 0, res |-> res, mem |-> mem, log |-> Append(log, RetEvent(sp, 0, Len(res)))]
    ELSE LET self == Deref(mem, sp)
         IN IF Bit(self.p[i], n) = 1
            THEN LET mk == SuDoKu__mark(SuDoKu__copy(self, Deref(mem, t)), i, n)
                     m1 == Marked(mem, t, mk)
                     log1 == Append(log, TryEvent(sp, t, i, n, mk.r))
                 IN IF mk.r = -2
                    THEN ResolveLoop(ResolveSwallow(m1, sp, t), sp, t, i, n + 1, res, log1)
                    ELSE LET sub == SuDoKu__resolve_aux(m1, t, log1)
                         IN IF sub.r < 0
                            THEN [r |-> -1, res |-> res, mem |-> sub.mem,
                                  log |-> Append(sub.log, RetEvent(sp, -1, Len(res)))]
                            ELSE ResolveLoop(IF self.e # 0 THEN AppendGraph(sub.mem, sp, t)
                                                           ELSE sub.mem,
                                             sp, t, i, n + 1, res \o sub.res, sub.log)
            ELSE ResolveLoop(mem, sp, t, i, n + 1, res, log)

\* the search keeping one workspace grid for all depths: t = &ws[0]
SuDoKu__resolve_aux_oneslot(mem, sp, log) ==
    LET self == Deref(mem, sp)
    IN IF self.n = NCells
       THEN [r |-> 0, res |-> <<self.v>>,
             mem |-> IF self.e # 0
                     THEN Assign(mem, sp, [self EXCEPT !.g = GLeaf(self.n, "+")])
                     ELSE mem,
             log |-> Append(log, RetEvent(sp, 0, 1))]
       ELSE LET m1 == IF self.e # 0
                      THEN Assign(mem, sp, [self EXCEPT !.g = GList(self.n, <<>>)])
                      ELSE mem
            IN ResolveLoop(m1, sp, 0, SuDoKu__search_min(self), 1, <<>>, log)

SuDoKu__resolve_aux(mem, sp, log) ==
    LET self == Deref(mem, sp)
    IN IF self.n = NCells
       THEN [r |-> 0, res |-> <<self.v>>,
             mem |-> IF self.e # 0
                     THEN Assign(mem, sp, [self EXCEPT !.g = GLeaf(self.n, "+")])
                     ELSE mem,
             log |-> Append(log, RetEvent(sp, 0, 1))]
       ELSE LET m1 == IF self.e # 0
                      THEN Assign(mem, sp, [self EXCEPT !.g = GList(self.n, <<>>)])
                      ELSE mem
            IN ResolveLoop(m1, sp, self.n, SuDoKu__search_min(self), 1, <<>>, log)

RECURSIVE MarkClues(_, _)
\* the loop testing the return code against -1 only
MarkClues_ignore(self, i) ==
    IF i >= NCells THEN Ret(self, 0)
    ELSE IF self.o[i] > 0
         THEN LET mk == SuDoKu__mark(self, i, self.o[i])
              IN IF mk.r = -1 THEN mk ELSE MarkClues(mk.self, i + 1)
         ELSE MarkClues(self, i + 1)

\* for (i = 0; i < 81; i++) if (o[i] > 0) if (mark(self, i, o[i]) < 0) return ...
MarkClues(self, i) ==
    IF i >= NCells THEN Ret(self, 0)
    ELSE IF self.o[i] > 0
         THEN LET mk == SuDoKu__mark(self, i, self.o[i])
              IN IF mk.r < 0 THEN mk ELSE MarkClues(mk.self, i + 1)
         ELSE MarkClues(self, i + 1)

\* ret is "NULL" (an exception is set: exc) or "list" (res holds the solutions)
SuDoKu_resolve(self0) ==
    LET self == SuDoKu__reset(self0)
        ws0 == Array(IF self.e # 0 THEN [UninitGrid EXCEPT !.g = GNull] ELSE UninitGrid)
        mc == MarkClues(self, 0)
        m0 == Marked([self |-> self, ws |-> ws0, err |-> "none"], SelfPtr, mc)
    IN IF mc.r < 0
       THEN [ret |-> "NULL", res |-> <<>>, mem |-> m0, log |-> <<>>, entered |-> FALSE]
       ELSE LET ra == SuDoKu__resolve_aux(m0, SelfPtr, <<>>)
            IN IF ra.r < 0
               THEN [ret |-> "NULL", res |-> <<>>, mem |-> ra.mem, log |-> ra.log,
                     entered |-> TRUE]
               ELSE [ret |-> "list", res |-> ra.res, mem |-> ra.mem, log |-> ra.log,
                     entered |-> TRUE]

RECURSIVE SuDoKu__unique_sol_aux(_, _, _)
RECURSIVE UniqueLoop(_, _, _, _, _, _, _)
\* the loop without the test scount < 0: a negative code of the level below is
\* added to count like a number of solutions
UniqueLoop_deaf(mem, sp, t, i, n, count, log) ==
    IF n >= Side + 1
    THEN [r |-> count, mem |-> mem, log |-> Append(log, RetEvent(sp, count, count))]
    ELSE LET self == Deref(mem, sp)
         IN IF Bit(self.p[i], n) = 1
            THEN LET mk == SuDoKu__mark(SuDoKu__copy(self, Deref(mem, t)), i, n)
                     m1 == Marked(mem, t, mk)
                     log1 == Append(log, TryEvent(sp, t, i, n, mk.r))
                 IN IF mk.r = -2
                    THEN UniqueLoop(PyErr_Clear(m1), sp, t, i, n + 1, count, log1)
                    ELSE LET sub == SuDoKu__unique_sol_aux(m1, t, log1)
                         IN IF count + sub.r > 1
                            THEN [r |-> -2, mem |-> sub.mem,
                                  log |-> Append(sub.log, RetEvent(sp, -2, count + sub.r))]
                            ELSE UniqueLoop(sub.mem, sp, t, i, n + 1, count + sub.r, sub.log)
            ELSE UniqueLoop(mem, sp, t, i, n + 1, count, log)

\* for (n = 1; n < 10; n++) of SuDoKu__unique_sol_aux
UniqueLoop(mem, sp, t, i, n, count, log) ==
    IF n >= Side + 1
    THEN [r |-> count, mem |-> mem, log |-> Append(log, RetEvent(sp, count, count))]
    ELSE LET self == Deref(mem, sp)
         IN IF Bit(self.p[i], n) = 1
            THEN LET mk == SuDoKu__mark(SuDoKu__copy(self, Deref(mem, t)), i, n)
                     m1 == Marked(mem, t, mk)
                     log1 == Append(log, TryEvent(sp, t, i, n, mk.r))
                 IN IF mk.r = -2
                    THEN UniqueLoop(PyErr_Clear(m1), sp, t, i, n + 1, count, log1)
                    ELSE LET sub == SuDoKu__unique_sol_aux(m1, t, log1)
                         IN IF sub.r < 0
                            THEN [r |-> sub.r, mem |-> sub.mem,
                                  log |-> Append(sub.log, RetEvent(sp, sub.r, count))]
                            ELSE IF count + sub.r > 1
                            THEN [r |-> -2, mem |-> sub.mem,
                                  log |-> Append(sub.log, RetEvent(sp, -2, count + sub.r))]
                            ELSE UniqueLoop(sub.mem, sp, t, i, n + 1, count + sub.r, sub.log)
            ELSE UniqueLoop(mem, sp, t, i, n + 1, count, log)

SuDoKu__unique_sol_aux(mem, sp, log) ==
    LET self == Deref(mem, sp)
    IN IF self.n = NCells
       THEN [r |-> 1, mem |-> mem, log |-> Append(log, RetEvent(sp, 1, 1))]
       ELSE UniqueLoop(mem, sp, self.n, SuDoKu__search_min(self), 1, 0, log)

\* the uniqueness check without its SuDoKu__reset
SuDoKu__unique_sol_noreset(self0) ==
    LET self == self0
        ws0 == Array(UninitGrid)
        mc == MarkClues(self, 0)
        m0 == Marked([self |-> self, ws |-> ws0, err |-> "none"], SelfPtr, mc)
    IN IF mc.r < 0
       THEN [r |-> -1, mem |-> m0, log |-> <<>>]
       ELSE SuDoKu__unique_sol_aux(m0, SelfPtr, <<>>)

SuDoKu__unique_sol(self0) ==
    LET self == SuDoKu__reset(self0)
        ws0 == Array(UninitGrid)
        mc == MarkClues(self, 0)
        m0 == Marked([self |-> self, ws |-> ws0, err |-> "none"], SelfPtr, mc)
    IN IF mc.r < 0
       THEN [r |-> -1, mem |-> m0, log |-> <<>>]
       ELSE SuDoKu__unique_sol_aux(m0, SelfPtr, <<>>)

(***************************************************************************)
(* What a solution is, independently of the solver: a complete grid in     *)
(* which no two peers hold the same digit.  Extend enumerates them by      *)
(* plain exhaustive extension of the partial grids, cell after cell.       *)
(***************************************************************************)
PeerSet == [i \in Cells |-> Peers(i)]

IsCompleteValid(g) ==
    /\ \A i \in Cells : g[i] \in Digits
    /\ \A i \in Cells : \A j \in PeerSet[i] : g[i] # g[j]

\* the partial grids filled up to cell i - 1, extended by one more cell
ExtendCell(S, i) ==
    {h \in {[g EXCEPT ![i] = d] : g \in S, d \in Digits} :
        \A j \in PeerSet[i] : j < i => h[j] # h[i]}

RECURSIVE Extend(_, _)
Extend(S, i) == IF i = NCells THEN S ELSE Extend(ExtendCell(S, i), i + 1)

AllSolutions == Extend({Array(0)}, 0)

\* the complete valid grids that agree with every clue of o
ValidCompletions(o) == {g \in AllSolutions : \A i \in Cells : o[i] # 0 => g[i] = o[i]}

Range(seq) == {seq[k] : k \in 1 .. Len(seq)}

(***************************************************************************)
(* State.                                                                  *)
(*   grid   the SuDoKu object                                              *)
(*   ws     the workspace of the last search, as it was left               *)
(*   out    outcome of the last handler: op, ret, exc (error indicator),   *)
(*          res (the list returned), entered (the search was started)      *)
(*   trace  search log of the last search (the parses done, when the       *)
(*          string methods are followed)                                   *)
(*   mk     the call of SuDoKu__mark in progress, when mark is followed     *)
(*          step by step: phase, cell i, digit n, peer index j, number of  *)
(*          calls since the reset, and the grid the call started from      *)
(*   str    the string returned by the last to_string                      *)
(*   gen    the call of SuDoKu_generate in progress (see below)            *)
(***************************************************************************)
VARIABLES grid, ws, out, trace, mk, str, gen

vars == <<grid, ws, out, trace, mk, str, gen>>

\* no call of generate in progress
NoGen == [pc |-> "idle", order |-> Array(-1), i |-> 0, r |-> 0, e |-> 0,
          full |-> Array(0), tried |-> Array(0), drawn |-> FALSE]

NoMark == [phase |-> "idle", i |-> 0, n |-> 0, j |-> 0, calls |-> 0, arg |-> <<>>]

NoWorkspace == Array(UninitGrid)
NoOutcome == [op |-> "none", ret |-> "none", exc |-> "none", res |-> <<>>, entered |-> FALSE]

(***************************************************************************)
(* Clue grids the object is constructed with, all cut from one full grid   *)
(* (Base):                                                                 *)
(*   - the grids that keep at most MaxClues of its cells, which need       *)
(*     search and have from one to all solutions;                          *)
(*   - its first k cells along a scattered order of the cells (steps of    *)
(*     2 * Side - 1), for every k, with up to MaxAltered cells             *)
(*     overwritten by any value 0..Side: clues that clash, clues that only *)
(*     fail deep in the propagation or in the search, other solutions.     *)
(***************************************************************************)
MaxClues == 4
MaxAltered == 1

Base ==
    [i \in Cells |-> (((RowOf(i) % Box) * Box + (RowOf(i) \div Box) + ColOf(i)) % Side) + 1]

\* the clue grid that keeps the cells of S
Keep(S) == ToArray([i \in Cells |-> IF i \in S THEN Base[i] ELSE 0])

Sparse == {Keep(S) : S \in {T \in SUBSET Cells : Cardinality(T) <= MaxClues}}

RECURSIVE Altered(_, _)
Altered(S, m) ==
    IF m = 0 THEN S
    ELSE Altered(S \cup {[o EXCEPT ![x] = d] : o \in S, x \in Cells, d \in 0 .. Side}, m - 1)

Scattered(k) == {i \in Cells : (i * (2 * Side - 1)) % NCells < k}

ClueGrids == Sparse \cup Altered({Keep(Scattered(k)) : k \in 0 .. NCells}, MaxAltered)

\* SuDoKu(problem, estimate): SuDoKu_new, then SuDoKu_init parsing the problem
Constructed(o, e) == [NewGrid EXCEPT !.o = o, !.e = e]

InitResolve ==
    /\ grid \in {Constructed(o, e) : o \in ClueGrids, e \in {0, 1}}
    /\ ws = NoWorkspace
    /\ out = NoOutcome
    /\ trace = <<>>
    /\ mk = NoMark
    /\ str = <<>>
    /\ gen = NoGen

\* the method resolve()
Resolve ==
    \E rs \in {SuDoKu_resolve(grid)} :
       /\ grid' = rs.mem.self
       /\ ws' = rs.mem.ws
       /\ out' = [op |-> "resolve", ret |-> rs.ret, exc |-> rs.mem.err, res |-> rs.res,
                  entered |-> rs.entered]
       /\ trace' = rs.log
       /\ UNCHANGED <<mk, str, gen>>

NextResolve == Resolve

SpecResolve == InitResolve /\ [][NextResolve]_vars

(***************************************************************************)
(* C1  For every clue grid whose clues are all marked without              *)
(* contradiction, the list resolve returns contains every complete grid    *)
(* that agrees with every clue and has no two peers with the same digit.   *)
(***************************************************************************)
C1_AllCompletionsReturned ==
    (out.op = "resolve" /\ out.entered) =>
        /\ out.ret = "list"
        /\ ValidCompletions(grid.o) \subseteq Range(out.res)

\* resolve has returned several solutions of an ambiguous puzzle
C1_Witness ==
    /\ out.op = "resolve" /\ out.entered /\ out.ret = "list"
    /\ Len(out.res) > 2
    /\ Cardinality(ValidCompletions(grid.o)) > 2

(***************************************************************************)
(* C2  Every grid in the list returned by resolve has all cells assigned a *)
(* digit, and no cell's digit equals the digit of any of its peers.        *)
(***************************************************************************)
C2_SolutionsValid ==
    (out.op = "resolve" /\ out.ret = "list") =>
        \A k \in 1 .. Len(out.res) : IsCompleteValid(out.res[k])

C2_Witness ==
    /\ out.op = "resolve" /\ out.ret = "list"
    /\ Len(out.res) > 0
    /\ \E k \in 1 .. Len(trace) : trace[k].ev = "try" /\ trace[k].r = -2

(***************************************************************************)
(* C7  If original contains two peer cells holding the same digit,         *)
(* resolve fails with Contradiction while marking the clues: the search is *)
(* never entered and no list is returned.                                  *)
(***************************************************************************)
PeerClash(o) == \E i \in Cells : \E j \in PeerSet[i] : o[i] \in Digits /\ o[i] = o[j]

C7_ClashFailsBeforeSearch ==
    (out.op = "resolve" /\ PeerClash(grid.o)) =>
        /\ out.ret = "NULL"
        /\ out.exc = "Contradiction"
        /\ ~out.entered
        /\ trace = <<>>

\* a clash between two clues that are not the first ones marked
C7_Witness ==
    /\ out.op = "resolve" /\ PeerClash(grid.o)
    /\ out.ret = "NULL" /\ out.exc = "Contradiction"
    /\ grid.n > 2

(***************************************************************************)
(* C9  Once every clue has been marked successfully, resolve never reports *)
(* Contradiction: a contradiction raised by mark inside a search branch is *)
(* cleared, the next candidate digit of the same cell is tried (or the     *)
(* level returns), and resolve returns a list, which may be empty.         *)
(***************************************************************************)
NextDigitTried(log, k) ==
    /\ k < Len(log)
    /\ log[k + 1].src = log[k].src
    /\ \/ log[k + 1].ev = "ret"
       \/ log[k + 1].ev = "try" /\ log[k + 1].i = log[k].i /\ log[k + 1].n > log[k].n

C9_SearchSwallowsContradiction ==
    (out.op = "resolve" /\ out.entered) =>
        /\ out.ret = "list"
        /\ out.exc = "none"
        /\ \A k \in 1 .. Len(trace) :
               (trace[k].ev = "try" /\ trace[k].r = -2) => NextDigitTried(trace, k)

\* a search in which branches were contradicted, and which found nothing
C9_Witness ==
    /\ out.op = "resolve" /\ out.entered /\ out.ret = "list"
    /\ out.res = <<>>
    /\ \E k \in 1 .. Len(trace) : trace[k].ev = "try" /\ trace[k].r = -2

(***************************************************************************)
(* The propagation engine followed call by call.  From a reset grid, mark  *)
(* is called on any cell with any digit; each call of SuDoKu__eliminate    *)
(* and each pop of the forced queue is one step.  The nested calls of mark *)
(* need no stack: a nested call returns only when the queue it shares with *)
(* its callers is empty (or with an error, which every caller passes on).  *)
(* A failed call leaves its grid behind; the callers then reset or drop    *)
(* it.  Copies are taken as the search takes them, into ws[n].             *)
(* Bounds: MaxCalls calls of mark in all, on the cells 0 .. MaxCallCell,   *)
(* and MaxCopies copies.                                                   *)
(***************************************************************************)
MaxCalls == 3
MaxCallCell == 5
MaxCopies == 1

InitProp ==
    /\ grid \in {SuDoKu__reset(Constructed(Array(0), e)) : e \in {0, 1}}
    /\ ws = NoWorkspace
    /\ out = NoOutcome
    /\ trace = <<>>
    /\ mk = NoMark
    /\ str = <<>>
    /\ gen = NoGen

\* SuDoKu__mark up to its peer loop: lines 95-125, for a top-level call
\* (start = the grid before the call) or for a forced cell
MarkEntry(g, i, n, calls, arg) ==
    IF g.v[i] = n
    THEN [grid |-> g,
          mk |-> [phase |-> "drain", i |-> i, n |-> n, j |-> 0, calls |-> calls, arg |-> arg]]
    ELSE IF Bit(g.p[i], n) = 0
    THEN [grid |-> Contradict(g).self,
          mk |-> [phase |-> "failed", i |-> i, n |-> n, j |-> 0, calls |-> calls, arg |-> arg]]
    ELSE [grid |-> [g EXCEPT !.v[i] = n, !.n = @ + 1, !.p[i] = 0, !.c[i] = 0],
          mk |-> [phase |-> "elim", i |-> i, n |-> n, j |-> 1, calls |-> calls, arg |-> arg]]

MarkCall(i, n) ==
    /\ mk.phase = "idle"
    /\ mk.calls < MaxCalls
    /\ LET st == MarkEntry(grid, i, n, mk.calls + 1, <<grid, i, n>>)
       IN /\ grid' = st.grid
          \* a call on a cell that already holds n returns at once
          /\ mk' = IF grid.v[i] = n THEN [st.mk EXCEPT !.phase = "idle"] ELSE st.mk
    /\ UNCHANGED <<ws, out, trace, str, gen>>

\* the peer loop ending one peer early
EliminateStep_short ==
    /\ mk.phase = "elim"
    /\ LET rel == SuDoKu__relations[mk.i]
           el == SuDoKu__eliminate(grid, rel[mk.j], mk.n)
       IN /\ grid' = el.self
          /\ mk' = IF el.r < 0 THEN [mk EXCEPT !.phase = "failed"]
                   ELSE IF mk.j >= Len(rel) - 1 THEN [mk EXCEPT !.phase = "drain", !.j = 0]
                   ELSE [mk EXCEPT !.j = @ + 1]
    /\ UNCHANGED <<ws, out, trace, str, gen>>

\* one pass of the peer loop: r = SuDoKu__eliminate(self, rel[j], n)
EliminateStep ==
    /\ mk.phase = "elim"
    /\ LET rel == SuDoKu__relations[mk.i]
           el == SuDoKu__eliminate(grid, rel[mk.j], mk.n)
       IN /\ grid' = el.self
          /\ mk' = IF el.r < 0 THEN [mk EXCEPT !.phase = "failed"]
                   ELSE IF mk.j = Len(rel) THEN [mk EXCEPT !.phase = "drain", !.j = 0]
                   ELSE [mk EXCEPT !.j = @ + 1]
    /\ UNCHANGED <<ws, out, trace, str, gen>>

\* one pass of the queue loop: pop a forced cell and mark it
PopForced ==
    /\ mk.phase = "drain"
    /\ grid.q_o < grid.q_i
    /\ LET i == grid.q[grid.q_o]
           s1 == [grid EXCEPT !.q_o = @ + 1]
           st == MarkEntry(s1, i, ffs(s1.p[i]), mk.calls, mk.arg)
       IN /\ grid' = st.grid
          /\ mk' = st.mk
    /\ UNCHANGED <<ws, out, trace, str, gen>>

\* the queue is empty: mark returns 0, and so does every caller
MarkReturn ==
    /\ mk.phase = "drain"
    /\ ~(grid.q_o < grid.q_i)
    /\ mk' = [mk EXCEPT !.phase = "idle"]
    /\ UNCHANGED <<grid, ws, out, trace, str, gen>>

\* SuDoKu__copy(self, &ws[self->n]), as the search does before a branch
CopyToWorkspace ==
    /\ mk.phase = "idle"
    /\ grid.n < NCells
    /\ Cardinality({k \in Cells : ws[k] # UninitGrid}) < MaxCopies
    /\ ws' = [ws EXCEPT ![grid.n] = SuDoKu__copy(grid, ws[grid.n])]
    /\ UNCHANGED <<grid, out, trace, mk, str, gen>>

\* SuDoKu__reset, which every handler starts with
ResetGrid ==
    /\ mk.phase \in {"idle", "failed"}
    /\ grid.n > 0
    /\ grid' = SuDoKu__reset(grid)
    /\ mk' = [NoMark EXCEPT !.calls = mk.calls]
    /\ UNCHANGED <<ws, out, trace, str, gen>>

NextProp ==
    \/ \E i \in 0 .. MaxCallCell : \E n \in Digits : MarkCall(i, n)
    \/ EliminateStep
    \/ PopForced
    \/ MarkReturn
    \/ CopyToWorkspace
    \/ ResetGrid

SpecProp == InitProp /\ [][NextProp]_vars

\* the steps of a call add up to SuDoKu__mark
MarkStepsAgree ==
    (mk.phase \in {"idle", "failed"} /\ mk.arg # <<>>) =>
        LET whole == SuDoKu__mark(mk.arg[1], mk.arg[2], mk.arg[3])
        IN /\ whole.self = grid
           /\ (whole.r < 0) = (mk.phase = "failed")

(***************************************************************************)
(* C3  In every grid state reached from reset by calls of mark and         *)
(* eliminate, the states a failed call leaves behind and the workspace     *)
(* copies included, candidateCount[i] is the number of set bits of         *)
(* candidates[i], for every cell i.                                        *)
(***************************************************************************)
CountsMatch(g) == \A i \in Cells : g.c[i] = popcount(g.p[i])

C3_CountIsPopcount ==
    /\ CountsMatch(grid)
    /\ \A k \in Cells : ws[k] # UninitGrid => CountsMatch(ws[k])

\* a call that failed in eliminate, a cell left without candidate, with a
\* copy in the workspace
C3_Witness ==
    /\ mk.phase = "failed"
    /\ \E i \in Cells : grid.v[i] = 0 /\ grid.p[i] = 0
    /\ \E k \in Cells : ws[k] # UninitGrid /\ ws[k].n > 0

(***************************************************************************)
(* Strings.  A string is a sequence of character codes.                    *)
(***************************************************************************)
ChNewline == 10
ChReturn == 13
ChSpace == 32
ChDash == 45
ChDot == 46
ChZero == 48
ChUnderscore == 95

RECURSIVE ToStringLoop(_, _, _)
\* for (i = 0; i < 81; i++) of SuDoKu__to_string; -1 on an invalid value
ToStringLoop(v, i, s) ==
    IF i >= NCells THEN [s |-> s, r |-> 0]
    ELSE IF v[i] = 0 THEN ToStringLoop(v, i + 1, Append(s, ChUnderscore))
    ELSE IF v[i] >= 1 /\ v[i] <= Side THEN ToStringLoop(v, i + 1, Append(s, v[i] + ChZero))
    ELSE [s |-> s, r |-> -1]

SuDoKu__to_string(v) == ToStringLoop(v, 0, <<>>)

RECURSIVE FromStringLoop(_, _, _, _, _)
\* for (k = 0; k < l; k++) of SuDoKu__from_string, then the two length tests
FromStringLoop(self, s, l, k, i) ==
    IF k >= l
    THEN IF i < NCells THEN [self |-> self, r |-> -1, msg |-> "not enough data"]
         ELSE [self |-> self, r |-> 0, msg |-> ""]
    ELSE LET c == s[k + 1]
         IN IF c = ChNewline \/ c = ChReturn THEN FromStringLoop(self, s, l, k + 1, i)
            ELSE IF i >= NCells
            THEN \* break, with k < l
                 [self |-> self, r |-> -1, msg |-> "too much data"]
            ELSE IF c >= ChZero + 1 /\ c <= ChZero + Side
            THEN FromStringLoop([self EXCEPT !.o[i] = c - ChZero], s, l, k + 1, i + 1)
            ELSE IF c = ChUnderscore \/ c = ChDash \/ c = ChSpace \/ c = ChDot \/ c = ChZero
            THEN \* nothing to do: o[i] keeps its value
                 FromStringLoop(self, s, l, k + 1, i + 1)
            ELSE [self |-> self, r |-> -1, msg |-> "Invalid character"]

SuDoKu__from_string(self, s, l) == FromStringLoop(self, s, l, 0, 0)

\* the calls of from_string on one object (trace logs them)
MaxParses == 1

\* the arrays that are formatted, and the clues the parsing object may hold
HeldClues == {Keep(Scattered(k)) : k \in 0 .. NCells}

\* the clues of o, each digit replaced by the next one
NextDigits(o) == ToArray([i \in Cells |-> IF o[i] = 0 THEN 0 ELSE (o[i] % Side) + 1])

\* arrays of blanks and digits, and one holding a value that is no digit
StringArrays ==
    HeldClues \cup {NextDigits(o) : o \in HeldClues} \cup {[Base EXCEPT ![0] = Side + 1]}

InitString ==
    /\ grid \in {Constructed(o, 1) : o \in HeldClues}
    /\ ws = NoWorkspace
    /\ out = NoOutcome
    /\ trace = <<>>
    /\ mk = NoMark
    /\ str = <<>>
    /\ gen = NoGen

\* the method to_string(values = a): out.res remembers a
CallToString(a) ==
    /\ Len(trace) < MaxParses
    /\ LET ts == SuDoKu__to_string(a)
       IN /\ str' = ts.s
          /\ out' = [op |-> "to_string", ret |-> IF ts.r < 0 THEN "NULL" ELSE "str",
                     exc |-> IF ts.r < 0 THEN "ValueError" ELSE "none",
                     res |-> <<a>>, entered |-> FALSE]
    /\ UNCHANGED <<grid, ws, trace, mk, gen>>

\* the method from_string(str), on the string the last to_string returned
CallFromString ==
    /\ out.op = "to_string" /\ out.ret = "str"
    /\ LET fs == SuDoKu__from_string(grid, str, Len(str))
       IN /\ grid' = fs.self
          /\ out' = [out EXCEPT !.op = "from_string",
                                !.ret = IF fs.r < 0 THEN "NULL" ELSE "None",
                                !.exc = IF fs.r < 0 THEN "ValueError" ELSE "none"]
    /\ trace' = Append(trace, "from_string")
    /\ UNCHANGED <<ws, mk, str, gen>>

NextString ==
    \/ \E a \in StringArrays : CallToString(a)
    \/ CallFromString

SpecString == InitString /\ [][NextString]_vars

(***************************************************************************)
(* C8  For every array a of values 0..9 and every grid the string is       *)
(* parsed into, whatever clues it held, formatting a with to_string and    *)
(* parsing the result with from_string succeeds and leaves original equal  *)
(* to a in every cell, blanks included.                                    *)
(***************************************************************************)
C8_RoundTrip ==
    out.op = "from_string" => (out.ret = "None" /\ grid.o = out.res[1])

(***************************************************************************)
(* The generator, SuDoKu_generate, followed loop pass by loop pass.        *)
(*   gen.pc     "idle", "fill" (step 1, inside the for loop), "retry" (an  *)
(*              attempt was contradicted), "filled" (step 1 is over),      *)
(*              "reduce" (step 2, inside the for loop), "done"             *)
(*   gen.order  the array order[81]                                        *)
(*   gen.i      the loop index i                                           *)
(*   gen.r      the variable r                                             *)
(*   gen.e      the saved estimate flag                                    *)
(*   gen.full   the grid step 1 built, gen.tried the clues the last        *)
(*              uniqueness check ran on                                    *)
(*   gen.drawn  order was drawn by a shuffle that ran after the last       *)
(*              contradicted attempt (or no attempt was contradicted yet)  *)
(* random() is any value when it chooses a digit; in a shuffle its call    *)
(* number i returns s * i, for one s of 0 .. MaxSeed.                      *)
(***************************************************************************)
MaxSeed == 3

RECURSIVE ShuffleLoop(_, _, _)
\* for (i = 0; i < 81; i++) { j = random() % (i + 1); order[i] = order[j]; order[j] = i; }
ShuffleLoop(order, i, rnd) ==
    IF i >= NCells THEN order
    ELSE LET j == rnd[i] % (i + 1)
             o1 == [order EXCEPT ![i] = order[j]]
         IN ShuffleLoop([o1 EXCEPT ![j] = i], i + 1, rnd)

\* the values random() returns during one shuffle
RandomStreams == {ToArray([i \in Cells |-> s * i]) : s \in 0 .. MaxSeed}

InitGenerate ==
    /\ grid = Constructed(Array(0), 1)
    /\ ws = NoWorkspace
    /\ out = NoOutcome
    /\ trace = <<>>
    /\ mk = NoMark
    /\ str = <<>>
    /\ gen = NoGen

\* step 0, the first shuffle, and the entry of the while loop
GenStart ==
    /\ gen.pc = "idle"
    /\ \E rnd \in RandomStreams :
          gen' = [gen EXCEPT !.pc = "fill", !.e = grid.e,
                             !.order = ShuffleLoop(gen.order, 0, rnd), !.i = 0, !.r = 1,
                             !.drawn = TRUE]
    /\ grid' = SuDoKu__reset([SuDoKu__reset(grid) EXCEPT !.e = 0])
    /\ UNCHANGED <<ws, out, trace, mk, str>>

RECURSIVE ClearBits(_, _)
\* for (k = 0; k < m; k++) j &= j - 1;
ClearBits(j, m) == IF m = 0 THEN j ELSE ClearBits(ClearLowest(j), m - 1)

\* one pass of the for loop of step 1 (i < 81), or its exit with r = 1
GenFill ==
    /\ gen.pc = "fill"
    /\ IF gen.i >= NCells
       THEN /\ gen' = [gen EXCEPT !.pc = "filled"]
            /\ UNCHANGED grid
       ELSE LET cell == gen.order[gen.i]
            IN IF grid.v[cell] = 0
               THEN \E m \in 0 .. (grid.c[cell] - 1) :
                       LET n == ffs(ClearBits(grid.p[cell], m))
                           mkd == SuDoKu__mark(grid, cell, n)
                       IN /\ grid' = mkd.self
                          /\ gen' = IF mkd.r = -2
                                    THEN [gen EXCEPT !.pc = "retry", !.r = 0, !.drawn = FALSE]
                                    ELSE [gen EXCEPT !.i = @ + 1]
               ELSE /\ gen' = [gen EXCEPT !.i = @ + 1]
                    /\ UNCHANGED grid
    /\ UNCHANGED <<ws, out, trace, mk, str>>

\* the retry with SuDoKu__reset left before the while loop
GenRetry_noreset ==
    /\ gen.pc = "retry"
    /\ grid' = grid
    /\ gen' = [gen EXCEPT !.pc = "fill", !.i = 0, !.r = 1]
    /\ UNCHANGED <<ws, out, trace, mk, str>>

\* r = 0: the while loop starts its next attempt
GenRetry ==
    /\ gen.pc = "retry"
    /\ grid' = SuDoKu__reset(grid)
    /\ gen' = [gen EXCEPT !.pc = "fill", !.i = 0, !.r = 1]
    /\ UNCHANGED <<ws, out, trace, mk, str>>

\* step 2 up to its for loop: memcpy(o, v), second shuffle
GenMinimize ==
    /\ gen.pc = "filled"
    /\ grid' = [grid EXCEPT !.o = grid.v]
    /\ \E rnd \in RandomStreams :
          gen' = [gen EXCEPT !.pc = "reduce", !.full = grid.v, !.drawn = TRUE,
                             !.order = ShuffleLoop(gen.order, 0, rnd), !.i = 0]
    /\ UNCHANGED <<ws, out, trace, mk, str>>

\* the clue is put back on the code -1 instead of -2
AfterUnique_lost(o, cell, n, r) == IF r >= 0 THEN o ELSE IF r = -1 THEN [o EXCEPT ![cell] = n] ELSE o

\* what the loop of step 2 makes of the result r of the uniqueness check:
\* the clue n stays removed, or is put back
AfterUnique(o, cell, n, r) == IF r >= 0 THEN o ELSE IF r = -2 THEN [o EXCEPT ![cell] = n] ELSE o

\* the loop of step 2 leaving out the last cell of order
ReduceDone_early(i) == i >= NCells - 1

\* for (i = 0; i < 81; i++) of step 2
ReduceDone(i) == i >= NCells

\* one pass of the for loop of step 2
GenReduce ==
    /\ gen.pc = "reduce"
    /\ ~ReduceDone(gen.i)
    /\ LET cell == gen.order[gen.i]
           n == grid.o[cell]
           tried == [grid EXCEPT !.o[cell] = 0]
       IN \E us \in {SuDoKu__unique_sol(tried)} :
             /\ grid' = [us.mem.self EXCEPT !.o = AfterUnique(@, cell, n, us.r)]
             /\ ws' = us.mem.ws
             /\ trace' = us.log
             /\ gen' = [gen EXCEPT !.r = us.r, !.tried = tried.o,
                                   !.i = IF us.r >= 0 \/ us.r = -2 THEN @ + 1 ELSE @,
                                   !.pc = IF us.r >= 0 \/ us.r = -2 THEN @ ELSE "done"]
             /\ out' = IF us.r >= 0 \/ us.r = -2 THEN out
                       ELSE [op |-> "generate", ret |-> "NULL", exc |-> us.mem.err,
                             res |-> <<>>, entered |-> FALSE]
    /\ UNCHANGED <<mk, str>>

\* self->e = e; return SuDoKu_get2darray(self->o);
GenReturn ==
    /\ gen.pc = "reduce"
    /\ ReduceDone(gen.i)
    /\ grid' = [grid EXCEPT !.e = gen.e]
    /\ gen' = [gen EXCEPT !.pc = "done"]
    /\ out' = [op |-> "generate", ret |-> "list", exc |-> "none", res |-> <<grid.o>>,
               entered |-> FALSE]
    /\ UNCHANGED <<ws, trace, mk, str>>

NextGenerate ==
    \/ GenStart
    \/ GenFill
    \/ GenRetry
    \/ GenMinimize
    \/ GenReduce
    \/ GenReturn

SpecGenerate == InitGenerate /\ [][NextGenerate]_vars

\* a grid object holding the clues o, as resolve() is called on it
WithClues(o) == [grid EXCEPT !.o = o]

OneSolution(rs) == rs.ret = "list" /\ Len(rs.res) = 1

\* C4: for every clue set original holds during the reduction phase of
\* generate (the set a clue was just taken from, and the set left after the
\* clue was kept out or put back), the uniqueness check returns 1 if and only
\* if resolve, run on the same original, returns a list of exactly one solution.
C4_UniqueIffOneSolution ==
    gen.pc \in {"reduce", "done"} =>
        /\ gen.i > 0 => ((gen.r = 1) <=> OneSolution(SuDoKu_resolve(WithClues(gen.tried))))
        /\ (SuDoKu__unique_sol(grid).r = 1) <=> OneSolution(SuDoKu_resolve(grid))

\* the check has returned 1 on one clue set of a reduction and the sentinel on
\* another one
C4_Witness ==
    /\ gen.pc = "reduce"
    /\ gen.i > 1
    /\ gen.r = -2
    /\ SuDoKu__unique_sol(grid).r = 1
    /\ Len(SuDoKu_resolve(WithClues(gen.tried)).res) > 1

\* C5: whenever generate returns a clue grid, whatever the cell orders and the
\* digit choices were, resolve on that clue grid returns exactly one solution,
\* and it is the full grid step 1 built.
C5_GeneratedHasOneSolution ==
    (out.op = "generate" /\ out.ret = "list") =>
        LET rs == SuDoKu_resolve(WithClues(out.res[1]))
        IN rs.ret = "list" /\ rs.res = <<gen.full>>

\* generate has returned a grid with clues removed, built from a full grid
\* other than the one of the smallest digits
C5_Witness ==
    /\ out.op = "generate"
    /\ out.ret = "list"
    /\ gen.full # Base
    /\ \E x \in Cells : out.res[1][x] = 0
    /\ \E x \in Cells : out.res[1][x] # 0

\* C6: whenever generate returns a clue grid, it is minimal: taking away any
\* single clue it still holds leaves a clue grid with more than one solution
\* (each cell having been tried once, in one pass of the loop).
C6_GeneratedIsMinimal ==
    (out.op = "generate" /\ out.ret = "list") =>
        \A x \in Cells :
            out.res[1][x] # 0 =>
                Cardinality(ValidCompletions([out.res[1] EXCEPT ![x] = 0])) > 1

\* generate has returned a grid whose last tried cell lost its clue while a
\* cell tried before kept its own
C6_Witness ==
    /\ out.op = "generate"
    /\ out.ret = "list"
    /\ out.res[1][gen.order[NCells - 1]] = 0
    /\ \E k \in 0 .. (NCells - 2) : out.res[1][gen.order[k]] # 0
    /\ gen.r = 1

\* the sentinel is returned by event k of the log
SentinelAt(log, k) == log[k].ev = "ret" /\ log[k].r = -2

\* the recursion levels open before event k: the first one, plus one for each
\* marked copy, minus one for each return
OpenLevels(log, k) ==
    1 + Cardinality({h \in 1 .. (k - 1) : log[h].ev = "try" /\ log[h].r # -2})
      - Cardinality({h \in 1 .. (k - 1) : log[h].ev = "ret"})

\* C10: in the uniqueness check, a level whose accumulated count exceeds 1
\* returns the sentinel -2; once a level has returned the sentinel, every
\* enclosing level returns it in turn and nothing else happens (no copy, no
\* mark); the result of the check is 0, 1 or -2.
C10_SentinelEndsCheck ==
    /\ \A k \in 1 .. Len(trace) :
          (trace[k].ev = "ret" /\ trace[k].count > 1) => trace[k].r = -2
    /\ \A k \in 1 .. Len(trace) :
          SentinelAt(trace, k) =>
              /\ \A h \in (k + 1) .. Len(trace) : SentinelAt(trace, h)
              /\ Len(trace) - k = OpenLevels(trace, k) - 1
              /\ trace[Len(trace)].src = SelfPtr
              /\ gen.r = -2
    /\ gen.r \in {0, 1, -2}

\* a uniqueness check of the reduction whose count exceeded 1 two levels deep,
\* after a first solution was counted
C10_Witness ==
    /\ gen.pc = "reduce"
    /\ gen.r = -2
    /\ \E k \in 1 .. Len(trace) :
          /\ trace[k].ev = "ret"
          /\ trace[k].count = 2
          /\ OpenLevels(trace, k) >= 3
          /\ \E h \in 1 .. (k - 1) : trace[h].ev = "ret" /\ trace[h].r = 1

\* the state SuDoKu__reset leaves: reset changes nothing any more
IsReset(self) == self = SuDoKu__reset(self)

\* C11 as stated: in step 1 of generate, an attempt that follows a
\* contradicted attempt starts from a fully reset grid and with a cell order
\* drawn anew after the contradiction.
C11_RetryResetsAndRedraws ==
    (gen.pc = "fill" /\ gen.i = 0) => (IsReset(grid) /\ gen.drawn)

\* C11 amended: the step that follows a contradicted attempt starts the next
\* attempt at its first cell on a fully reset grid, and leaves the cell order
\* as it was drawn before the first attempt.
C11_RetryResetsKeepsOrder ==
    [][gen.pc = "retry" =>
          /\ gen'.pc = "fill"
          /\ gen'.i = 0
          /\ IsReset(grid')
          /\ gen'.order = gen.order
          /\ ~gen'.drawn]_vars

\* an attempt that follows a contradicted one has filled its first cells
C11_Witness ==
    /\ gen.pc = "fill"
    /\ gen.i > 1
    /\ ~gen.drawn
    /\ grid.n > 1

(***************************************************************************)
(* The method estimate(), on the decision tree the last resolve() left in  *)
(* self->g.  The score is ln(l / 81) + 1 for the tree length l; the model  *)
(* keeps l itself, and the fork count f.                                   *)
(***************************************************************************)
RECURSIVE SuDoKu__graph_len_aux(_, _)
RECURSIVE GraphLenLoop(_, _, _, _)
\* for (i = 0; i < PyList_Size(g1); i++) of SuDoKu__graph_len_aux
GraphLenLoop(g, i, l, d) ==
    IF i >= Len(g.ch) THEN l
    ELSE LET sl == SuDoKu__graph_len_aux(g.ch[i + 1], g.d)
         IN IF sl < 0 THEN sl ELSE GraphLenLoop(g, i + 1, l + sl, d)

\* a node that is no tuple (NULL, None) does not parse: -1
SuDoKu__graph_len_aux(g, d) ==
    IF g.k \in {"NULL", "None"} THEN -1
    ELSE IF g.k = "list" THEN GraphLenLoop(g, 0, g.d - d, d)
    ELSE g.d - d

SuDoKu__graph_len(g) == SuDoKu__graph_len_aux(g, 0)

RECURSIVE SuDoKu__graph_forks(_)
RECURSIVE GraphForksLoop(_, _, _)
\* the loop adding the forks of each child, but not the child itself
GraphForksLoop_below(g, i, f) ==
    IF i >= Len(g.ch) THEN f
    ELSE LET sf == SuDoKu__graph_forks(g.ch[i + 1])
         IN IF sf < 0 THEN sf ELSE GraphForksLoop(g, i + 1, f + sf)

\* for (i = 0; i < PyList_Size(g1); i++) of SuDoKu__graph_forks: f += sf + 1
GraphForksLoop(g, i, f) ==
    IF i >= Len(g.ch) THEN f
    ELSE LET sf == SuDoKu__graph_forks(g.ch[i + 1])
         IN IF sf < 0 THEN sf ELSE GraphForksLoop(g, i + 1, f + sf + 1)

SuDoKu__graph_forks(g) ==
    IF g.k \in {"NULL", "None"} THEN -1
    ELSE IF g.k = "list" THEN GraphForksLoop(g, 0, 0)
    ELSE 0

\* objects that keep the decision tree, and a few that do not
InitEstimate ==
    /\ grid \in {Constructed(o, 1) : o \in ClueGrids} \cup {Constructed(o, 0) : o \in HeldClues}
    /\ ws = NoWorkspace
    /\ out = NoOutcome
    /\ trace = <<>>
    /\ mk = NoMark
    /\ str = <<>>
    /\ gen = NoGen

\* the method estimate(): None, NULL (an exception is set), or the pair
\* out.res = <<l, f>>
Estimate ==
    /\ out' = IF grid.e = 0 \/ grid.g = GNull
              THEN [op |-> "estimate", ret |-> "None", exc |-> "none", res |-> <<>>,
                    entered |-> FALSE]
              ELSE LET l == SuDoKu__graph_len(grid.g)
                       f == SuDoKu__graph_forks(grid.g)
                   IN IF l < 0 \/ f < 0
                      THEN [op |-> "estimate", ret |-> "NULL", exc |-> "TypeError",
                            res |-> <<>>, entered |-> FALSE]
                      ELSE [op |-> "estimate", ret |-> "tuple", exc |-> "none",
                            res |-> <<l, f>>, entered |-> FALSE]
    /\ UNCHANGED <<grid, ws, trace, mk, str, gen>>

NextEstimate ==
    \/ Resolve
    \/ Estimate

SpecEstimate == InitEstimate /\ [][NextEstimate]_vars

RECURSIVE BranchingNodes(_)
RECURSIVE BranchingBelow(_, _)
\* the branching nodes among the children i + 1 .. of g, and below them
BranchingBelow(g, i) ==
    IF i >= Len(g.ch) THEN 0 ELSE BranchingNodes(g.ch[i + 1]) + BranchingBelow(g, i + 1)

\* the list nodes of the tree g that have at least one child
BranchingNodes(g) ==
    IF g.k = "list" /\ Len(g.ch) > 0 THEN 1 + BranchingBelow(g, 0) ELSE 0

\* C12 as stated: the fork count estimate() reports for the tree resolve()
\* built is the number of its internal nodes that have at least one child.
C12_ForksCountBranchingNodes ==
    (out.op = "estimate" /\ out.ret = "tuple") => out.res[2] = BranchingNodes(grid.g)

\* the digits the search of the last resolve() tried, each of which hangs one
\* child (a '-' leaf, a '+' leaf or a subtree) under the node it branches on
Trials == Cardinality({k \in 1 .. Len(trace) : trace[k].ev = "try"})

\* C12 amended: the fork count estimate() reports for the tree resolve()
\* built is the number of child nodes of the tree (every node but the root),
\* one for each digit the search tried: a node with k children counts k.
C12_ForksCountChildren ==
    (out.op = "estimate" /\ out.ret = "tuple") => out.res[2] = Trials

\* estimate() reported the forks of a tree two levels deep that holds a
\* contradicted branch
C12_Witness ==
    /\ out.op = "estimate"
    /\ out.ret = "tuple"
    /\ out.res[2] >= 4
    /\ \E k \in 1 .. Len(trace) : trace[k].ev = "try" /\ trace[k].r = -2
    /\ \E k \in 1 .. Len(trace) : trace[k].ev = "try" /\ trace[k].src # SelfPtr

(***************************************************************************)
(* SuDoKu__search_min on its own, applied to the grids that step 1 of      *)
(* resolve() leaves once the clues are marked, complete grids included.    *)
(***************************************************************************)
InitSearch ==
    /\ grid \in {Constructed(o, 0) : o \in ClueGrids}
    /\ ws = NoWorkspace
    /\ out = NoOutcome
    /\ trace = <<>>
    /\ mk = NoMark
    /\ str = <<>>
    /\ gen = NoGen

\* steps 0 and 1 of SuDoKu_resolve: reset, then the clues are marked
MarkOriginal ==
    /\ out.op = "none"
    /\ LET mc == MarkClues(SuDoKu__reset(grid), 0)
       IN /\ grid' = mc.self
          /\ out' = [op |-> "mark_clues", ret |-> IF mc.r < 0 THEN "NULL" ELSE "int",
                     exc |-> IF mc.r = -2 THEN "Contradiction" ELSE "none",
                     res |-> <<mc.r>>, entered |-> FALSE]
    /\ UNCHANGED <<ws, trace, mk, str, gen>>

\* i = SuDoKu__search_min(self)
CallSearchMin ==
    /\ out.op = "mark_clues"
    /\ out.ret = "int"
    /\ out' = [op |-> "search_min", ret |-> "int", exc |-> "none",
               res |-> <<SuDoKu__search_min(grid)>>, entered |-> FALSE]
    /\ UNCHANGED <<grid, ws, trace, mk, str, gen>>

NextSearch ==
    \/ MarkOriginal
    \/ CallSearchMin

SpecSearch == InitSearch /\ [][NextSearch]_vars

\* C13: search_min returns -1 when every cell is assigned, and otherwise the
\* index (0 .. 80) of an unassigned cell.
C13_SearchMinSentinel ==
    out.op = "search_min" =>
        IF \A i \in Cells : grid.v[i] # 0
        THEN out.res[1] = -1
        ELSE out.res[1] \in Cells /\ grid.v[out.res[1]] = 0

\* C14: after reset and any calls of mark that all returned success, a digit d
\* is in the candidate mask of an unassigned cell if and only if no peer of
\* the cell is assigned d.
C14_MaskIsPeerComplement ==
    mk.phase = "idle" =>
        \A i \in Cells :
            grid.v[i] = 0 =>
                \A d \in Digits :
                    (Bit(grid.p[i], d) = 1) <=> (\A j \in PeerSet[i] : grid.v[j] # d)

\* several calls have returned, forced cells were assigned on the way, and an
\* unassigned cell has lost candidates but not all
C14_Witness ==
    /\ mk.phase = "idle"
    /\ mk.calls >= 2
    /\ grid.n > mk.calls
    /\ \E i \in Cells : grid.v[i] = 0 /\ grid.c[i] \in 2 .. (Side - 1)

(***************************************************************************)
(* Step 1 of SuDoKu_generate with SuDoKu__mark followed step by step, as   *)
(* above: the grid is filled along order until it is complete, every       *)
(* forced cell being popped on the way; a contradicted attempt starts the  *)
(* loop again.                                                             *)
(***************************************************************************)
InitFill ==
    /\ grid = SuDoKu__reset(Constructed(Array(0), 0))
    /\ ws = NoWorkspace
    /\ out = NoOutcome
    /\ trace = <<>>
    /\ mk = NoMark
    /\ str = <<>>
    /\ gen \in {[NoGen EXCEPT !.pc = "fill", !.r = 1, !.drawn = TRUE,
                              !.order = ShuffleLoop(NoGen.order, 0, rnd)] :
                   rnd \in RandomStreams}

\* one pass of the for loop of step 1: the cell order[i] is skipped when it
\* holds a value (as it does once its own mark has returned), and is marked
\* with a digit chosen at random otherwise
FillCall ==
    /\ gen.pc = "fill"
    /\ mk.phase = "idle"
    /\ gen.i < NCells
    /\ LET cell == gen.order[gen.i]
       IN IF grid.v[cell] = 0
          THEN \E m \in 0 .. (grid.c[cell] - 1) :
                  LET n == ffs(ClearBits(grid.p[cell], m))
                      st == MarkEntry(grid, cell, n, 0, <<grid, cell, n>>)
                  IN /\ grid' = st.grid
                     /\ mk' = st.mk
                     /\ UNCHANGED gen
          ELSE /\ gen' = [gen EXCEPT !.i = @ + 1]
               /\ UNCHANGED <<grid, mk>>
    /\ UNCHANGED <<ws, out, trace, str>>

\* mark returned -2: PyErr_Clear, r = 0, break, and the next attempt
FillRetry ==
    /\ gen.pc = "fill"
    /\ mk.phase = "failed"
    /\ grid' = SuDoKu__reset(grid)
    /\ mk' = NoMark
    /\ gen' = [gen EXCEPT !.i = 0, !.r = 1, !.drawn = FALSE]
    /\ UNCHANGED <<ws, out, trace, str>>

NextFill ==
    \/ FillCall
    \/ EliminateStep
    \/ PopForced
    \/ MarkReturn
    \/ FillRetry

SpecFill == InitFill /\ [][NextFill]_vars

ResolveCall ==
    /\ gen.pc \in {"idle", "done"}
    /\ Resolve

NextSearches ==
    \/ GenStart
    \/ GenFill
    \/ GenRetry
    \/ GenMinimize
    \/ GenReduce
    \/ GenReturn
    \/ ResolveCall

SpecSearches == InitGenerate /\ [][NextSearches]_vars

\* a grid without its decision tree, which is bookkeeping of the level that
\* holds the grid
Core(g) == [g EXCEPT !.g = GNull]

\* no branch after event k of the log is copied into the slot ptr
KeptAfter(log, k, ptr) == \A h \in (k + 1) .. Len(log) : ~(log[h].ev = "try" /\ log[h].dst = ptr)

\* root is the grid the search started from, mem the memory it left, log its
\* log.  Every branch goes to a slot above the slot of the grid it branches
\* on, and below 81; the search left the root as it was; and every branch
\* whose parent is still in memory is what copying that parent and marking
\* it gives: same return code, and same grid where the slot was not taken
\* again.
FrameKept(root, mem, log) ==
    /\ Core(mem.self) = Core(root)
    /\ \A k \in 1 .. Len(log) :
          log[k].ev = "try" =>
              /\ log[k].dst \in Cells
              /\ log[k].dst > log[k].src
              /\ KeptAfter(log, k, log[k].src) =>
                    LET parent == Deref(mem, log[k].src)
                        branch == SuDoKu__mark(SuDoKu__copy(parent, mem.ws[log[k].dst]),
                                               log[k].i, log[k].n)
                    IN /\ branch.r = log[k].r
                       /\ KeptAfter(log, k, log[k].dst) =>
                             Core(mem.ws[log[k].dst]) = Core(branch.self)

\* C16: a search of resolve or of the uniqueness check never modifies the
\* grid a branch is taken from: the branch, and everything below it, works
\* in workspace slots above the slot of that grid and below 81, so that every
\* sibling is copied from the unchanged parent.
C16_BranchLeavesParent ==
    /\ (out.op = "resolve" /\ out.entered /\ gen.pc \in {"idle", "done"}) =>
          FrameKept(MarkClues(SuDoKu__reset(grid), 0).self,
                    [self |-> grid, ws |-> ws], trace)
    /\ (gen.pc = "reduce" /\ gen.i > 0) =>
          LET asked == [grid EXCEPT !.o = gen.tried]
          IN FrameKept(MarkClues(SuDoKu__reset(asked), 0).self,
                       [self |-> asked, ws |-> ws], trace)

\* a search went three levels deep and came back to try a sibling at its
\* first level
C16_Witness ==
    \E k \in 1 .. Len(trace) :
        /\ trace[k].ev = "try"
        /\ trace[k].src # SelfPtr
        /\ trace[k].r # -2
        /\ \E j \in 1 .. (k - 1) : trace[j].ev = "try" /\ trace[j].dst = trace[k].src
        /\ \E h \in (k + 1) .. Len(trace) : trace[h].ev = "try" /\ trace[h].src = SelfPtr

====
